---- MODULE Spec2Model ----
(***************************************************************************)
(* Model of gns3/modules/virtualbox/virtualbox_vm.py: the client-side      *)
(* VirtualBoxVM node.  The node holds a settings dictionary, a list of     *)
(* EthernetPort objects (one per adapter) and the port-naming parameters   *)
(* given to create().  The compute server is the environment: it answers   *)
(* the create request once and every update request with a result dict.    *)
(*                                                                         *)
(* Python values: a dict is a function over its keys; None is the empty    *)
(* sequence; a port name is the sequence of the pieces str.format() emits  *)
(* (literal text or a substituted number).                                 *)
(***************************************************************************)
EXTENDS Integers, Sequences, FiniteSets, TLC

VARIABLES
    pc,                 \* "new" (constructed), "creating" (create sent), "created"
    defaults,           \* the shared table VBOX_VM_SETTINGS
    settings,           \* self._settings
    linked_clone,       \* self._linked_clone
    port_name_format,   \* self._port_name_format
    port_segment_size,  \* self._port_segment_size
    first_port_name,    \* self._first_port_name
    ports,              \* self._ports
    nodeName,           \* what self.name() returns
    pending,            \* update requests sent and not yet answered
    call                \* the last update() call: its argument and what it sent

vars == <<pc, defaults, settings, linked_clone, port_name_format,
          port_segment_size, first_port_name, ports, nodeName, pending, call>>

----------------------------------------------------------------------------
(* Bounds *)

MaxAdapters == 2
MaxPending == 1
MaxNamingAdapters == 4
MaxSegmentSize == 3

----------------------------------------------------------------------------
(* Python values *)

None == <<>>

Lit(s) == [kind |-> "lit", text |-> s, num |-> 0]
Num(n) == [kind |-> "num", text |-> "", num |-> n]
Field(f) == [kind |-> "field", text |-> f, num |-> 0]

Str(s) == <<Lit(s)>>

Truthy(v) == v # None /\ v # Str("")

EmptyDict == [k \in {} |-> 0]

\* markers for "key not present" when a dict is drawn from a bounded set
NoInt == 0 - 1
NoStr == "<absent>"

DictOf(a, v, n) ==
    [k \in ((IF a = NoInt THEN {} ELSE {"adapters"})
            \cup (IF v = NoStr THEN {} ELSE {"vmname"})
            \cup (IF n = NoStr THEN {} ELSE {"name"})) |->
        CASE k = "adapters" -> a
          [] k = "vmname" -> v
          [] k = "name" -> n]

----------------------------------------------------------------------------
(* str.format on the port naming template *)

FieldValue(f, interface_number, segment_number) ==
    CASE f = "0" -> interface_number
      [] f = "1" -> segment_number
      [] f = "port0" -> interface_number
      [] f = "port1" -> 1 + interface_number
      [] f = "segment0" -> segment_number
      [] f = "segment1" -> 1 + segment_number

Format(fmt, interface_number, segment_number) ==
    [i \in 1..Len(fmt) |->
        IF fmt[i].kind = "field"
        THEN Num(FieldValue(fmt[i].text, interface_number, segment_number))
        ELSE fmt[i]]

\* "Ethernet{0}", "e{segment0}/{port0}", "eth{port1}.{1}"
FormatEthernet == <<Lit("Ethernet"), Field("0")>>
FormatSlot == <<Lit("e"), Field("segment0"), Lit("/"), Field("port0")>>
FormatOneBased == <<Lit("eth"), Field("port1"), Lit("."), Field("1")>>

----------------------------------------------------------------------------
(* EthernetPort objects *)

PortIds(ps) == {ps[i].id : i \in 1..Len(ps)}

\* the identity of a newly allocated object: distinct from every object in used
NewId(used) == CHOOSE i \in 1..(Cardinality(used) + 1) :
                   /\ i \notin used
                   /\ \A j \in 1..(Cardinality(used) + 1) : j \notin used => i <= j

EthernetPort(id, port_name) ==
    [id |-> id, name |-> port_name, adapter_number |-> NoInt,
     port_number |-> NoInt, free |-> TRUE]

----------------------------------------------------------------------------
(* _addAdapters: the loop over range(0, adapters).  ps is self._ports, used *)
(* the identities of the objects allocated so far or still in the list the  *)
(* caller had.                                                              *)

RECURSIVE AddLoopNoReset(_, _, _, _, _, _)
AddLoopNoReset(ps, used, adapter_number, adapters, interface_number, segment_number) ==
    IF adapter_number >= adapters THEN ps
    ELSE LET first == Truthy(first_port_name) /\ adapter_number = 0
             port_name == IF first THEN first_port_name
                          ELSE Format(port_name_format, interface_number, segment_number)
             inc == interface_number + 1
             wrap == ~first /\ port_segment_size # 0 /\ inc % port_segment_size = 0
             new_port == [EthernetPort(NewId(used), port_name)
                              EXCEPT !.adapter_number = adapter_number,
                                     !.port_number = 0]
         IN AddLoopNoReset(Append(ps, new_port), used \cup {new_port.id},
                           adapter_number + 1, adapters,
                           IF first THEN interface_number ELSE inc,
                           IF wrap THEN segment_number + 1 ELSE segment_number)

RECURSIVE AddLoopFirstCounts(_, _, _, _, _, _)
AddLoopFirstCounts(ps, used, adapter_number, adapters, interface_number, segment_number) ==
    IF adapter_number >= adapters THEN ps
    ELSE LET first == Truthy(first_port_name) /\ adapter_number = 0
             port_name == IF first THEN first_port_name
                          ELSE Format(port_name_format, interface_number, segment_number)
             inc == interface_number + 1
             wrap == port_segment_size # 0 /\ inc % port_segment_size = 0
             new_port == [EthernetPort(NewId(used), port_name)
                              EXCEPT !.adapter_number = adapter_number,
                                     !.port_number = 0]
         IN AddLoopFirstCounts(Append(ps, new_port), used \cup {new_port.id},
                               adapter_number + 1, adapters,
                               IF wrap THEN 0 ELSE inc,
                               IF wrap THEN segment_number + 1 ELSE segment_number)

RECURSIVE AddLoopInterfaceAsAdapter(_, _, _, _, _, _)
AddLoopInterfaceAsAdapter(ps, used, adapter_number, adapters, interface_number, segment_number) ==
    IF adapter_number >= adapters THEN ps
    ELSE LET first == Truthy(first_port_name) /\ adapter_number = 0
             port_name == IF first THEN first_port_name
                          ELSE Format(port_name_format, interface_number, segment_number)
             inc == interface_number + 1
             wrap == ~first /\ port_segment_size # 0 /\ inc % port_segment_size = 0
             new_port == [EthernetPort(NewId(used), port_name)
                              EXCEPT !.adapter_number = interface_number,
                                     !.port_number = 0]
         IN AddLoopInterfaceAsAdapter(Append(ps, new_port), used \cup {new_port.id},
                                      adapter_number + 1, adapters,
                                      IF first THEN interface_number
                                      ELSE IF wrap THEN 0 ELSE inc,
                                      IF wrap THEN segment_number + 1 ELSE segment_number)

RECURSIVE AddLoop(_, _, _, _, _, _)
AddLoop(ps, used, adapter_number, adapters, interface_number, segment_number) ==
    IF adapter_number >= adapters THEN ps
    ELSE LET first == Truthy(first_port_name) /\ adapter_number = 0
             port_name == IF first THEN first_port_name
                          ELSE Format(port_name_format, interface_number, segment_number)
             inc == interface_number + 1
             wrap == ~first /\ port_segment_size # 0 /\ inc % port_segment_size = 0
             new_port == [EthernetPort(NewId(used), port_name)
                              EXCEPT !.adapter_number = adapter_number,
                                     !.port_number = 0]
         IN AddLoop(Append(ps, new_port), used \cup {new_port.id},
                    adapter_number + 1, adapters,
                    IF first THEN interface_number
                    ELSE IF wrap THEN 0 ELSE inc,
                    IF wrap THEN segment_number + 1 ELSE segment_number)

addAdapters(ps, used, adapters) == AddLoop(ps, used, 0, adapters, 0, 0)

----------------------------------------------------------------------------
(* The shared defaults table and __init__ *)

\* .settings.VBOX_VM_SETTINGS; the number of adapters it holds is a parameter
VBOX_VM_SETTINGS(a) ==
    [adapters |-> a,
     use_any_adapter |-> FALSE,
     adapter_type |-> "Intel PRO/1000 MT Desktop (82540EM)",
     ram |-> 256,
     headless |-> FALSE,
     acpi_shutdown |-> FALSE,
     enable_remote_console |-> FALSE]

virtualbox_vm_settings_zero_adapters(d) ==
    ("vmname" :> "") @@ ("console" :> None) @@ ("console_host" :> None)
    @@ ("adapters" :> 0)
    @@ ("use_any_adapter" :> d.use_any_adapter)
    @@ ("adapter_type" :> d.adapter_type)
    @@ ("ram" :> d.ram)
    @@ ("headless" :> d.headless)
    @@ ("acpi_shutdown" :> d.acpi_shutdown)
    @@ ("enable_remote_console" :> d.enable_remote_console)

virtualbox_vm_settings(d) ==
    ("vmname" :> "") @@ ("console" :> None) @@ ("console_host" :> None)
    @@ ("adapters" :> d.adapters)
    @@ ("use_any_adapter" :> d.use_any_adapter)
    @@ ("adapter_type" :> d.adapter_type)
    @@ ("ram" :> d.ram)
    @@ ("headless" :> d.headless)
    @@ ("acpi_shutdown" :> d.acpi_shutdown)
    @@ ("enable_remote_console" :> d.enable_remote_console)

NoCall == [called |-> FALSE, new_settings |-> EmptyDict,
           sent |-> FALSE, params |-> EmptyDict]

\* the node right after VirtualBoxVM(module, server, project)
Constructed(a) ==
    /\ pc = "new"
    /\ defaults = VBOX_VM_SETTINGS(a)
    /\ settings = virtualbox_vm_settings(defaults)
    /\ linked_clone = FALSE
    /\ port_name_format = FormatEthernet
    /\ port_segment_size = 0
    /\ first_port_name = None
    /\ ports = <<>>
    /\ nodeName = ""
    /\ pending = 0
    /\ call = NoCall

Init == \E a \in 0..MaxAdapters : Constructed(a)

----------------------------------------------------------------------------
(* create and its callback *)

create(vmname, name, fmt, segment_size, first_name, linked) ==
    /\ pc = "new"
    /\ pc' = "creating"
    /\ nodeName' = IF name = "" THEN vmname ELSE name
    /\ linked_clone' = linked
    /\ port_name_format' = fmt
    /\ port_segment_size' = segment_size
    /\ first_port_name' = first_name
    /\ UNCHANGED <<defaults, settings, ports, pending, call>>

createCallback ==
    /\ pc = "creating"
    /\ pc' = "created"
    /\ ports' = addAdapters(ports, PortIds(ports),
                            IF "adapters" \in DOMAIN settings
                            THEN settings["adapters"] ELSE 0)
    /\ UNCHANGED <<defaults, settings, linked_clone, port_name_format,
                   port_segment_size, first_port_name, nodeName, pending, call>>

----------------------------------------------------------------------------
(* update *)

RenameOverrideAnyNode(new_settings) ==
    IF "name" \in DOMAIN new_settings /\ new_settings["name"] # nodeName
    THEN ("vmname" :> new_settings["name"]) @@ new_settings
    ELSE new_settings

\* lines 139-142: new_settings as it is when the loop over its items starts
RenameOverride(new_settings) ==
    IF "name" \in DOMAIN new_settings /\ new_settings["name"] # nodeName
       /\ linked_clone
    THEN ("vmname" :> new_settings["name"]) @@ new_settings
    ELSE new_settings

RECURSIVE ParamsLoopNoCompare(_, _, _)
ParamsLoopNoCompare(items, new_settings, params) ==
    IF items = {} THEN params
    ELSE LET name == CHOOSE k \in items : TRUE
             value == new_settings[name]
         IN ParamsLoopNoCompare(items \ {name}, new_settings,
                IF name \in DOMAIN settings
                THEN (name :> value) @@ params
                ELSE params)

RECURSIVE ParamsLoop(_, _, _)
ParamsLoop(items, new_settings, params) ==
    IF items = {} THEN params
    ELSE LET name == CHOOSE k \in items : TRUE
             value == new_settings[name]
         IN ParamsLoop(items \ {name}, new_settings,
                IF name \in DOMAIN settings /\ settings[name] # value
                THEN (name :> value) @@ params
                ELSE params)

StoredAfterUpdateOptimistic(params) == params @@ settings

\* update() assigns nothing to self._settings
StoredAfterUpdate(params) == settings

update(new_settings) ==
    /\ pc = "created"
    /\ LET effective == RenameOverride(new_settings)
           params == ParamsLoop(DOMAIN effective, effective, EmptyDict)
       IN /\ params # EmptyDict => pending < MaxPending
          /\ pending' = IF params # EmptyDict THEN pending + 1 ELSE pending
          /\ settings' = StoredAfterUpdate(params)
          /\ call' = [called |-> TRUE, new_settings |-> new_settings,
                      sent |-> params # EmptyDict, params |-> params]
    /\ UNCHANGED <<pc, defaults, linked_clone, port_name_format,
                   port_segment_size, first_port_name, ports, nodeName>>

----------------------------------------------------------------------------
(* the callback for update *)

RECURSIVE CallbackLoopAnyAdapters(_, _, _, _)
CallbackLoopAnyAdapters(items, result, st, nb_adapters_changed) ==
    IF items = {} THEN [settings |-> st, nb_adapters_changed |-> nb_adapters_changed]
    ELSE LET name == CHOOSE k \in items : TRUE
             value == result[name]
             differs == name \in DOMAIN st /\ st[name] # value
         IN CallbackLoopAnyAdapters(items \ {name}, result,
                IF differs THEN [st EXCEPT ![name] = value] ELSE st,
                nb_adapters_changed \/ name = "adapters")

RECURSIVE CallbackLoop(_, _, _, _)
CallbackLoop(items, result, st, nb_adapters_changed) ==
    IF items = {} THEN [settings |-> st, nb_adapters_changed |-> nb_adapters_changed]
    ELSE LET name == CHOOSE k \in items : TRUE
             value == result[name]
             differs == name \in DOMAIN st /\ st[name] # value
         IN CallbackLoop(items \ {name}, result,
                IF differs THEN [st EXCEPT ![name] = value] ELSE st,
                nb_adapters_changed \/ (differs /\ name = "adapters"))

RebuildNoClear(ps, adapters) == addAdapters(ps, PortIds(ps), adapters)

RebuildIncremental(ps, adapters) ==
    IF adapters <= Len(ps) THEN SubSeq(ps, 1, adapters)
    ELSE AddLoop(ps, PortIds(ps), Len(ps), adapters, Len(ps), 0)

\* lines 170-171: self._ports.clear() then _addAdapters; ps is the list before
Rebuild(ps, adapters) == addAdapters(<<>>, PortIds(ps), adapters)

updateCallback(result) ==
    /\ pc = "created"
    /\ pending > 0
    /\ pending' = pending - 1
    /\ LET r == CallbackLoop(DOMAIN result, result, settings, FALSE)
       IN /\ settings' = r.settings
          /\ ports' = IF r.nb_adapters_changed
                      THEN Rebuild(ports, r.settings["adapters"])
                      ELSE ports
    /\ UNCHANGED <<pc, defaults, linked_clone, port_name_format,
                   port_segment_size, first_port_name, nodeName, call>>

----------------------------------------------------------------------------
(* a link is attached to or removed from a port of the node *)

linkPort(i) ==
    /\ pc = "created"
    /\ i \in 1..Len(ports)
    /\ ports' = [ports EXCEPT ![i].free = ~ports[i].free]
    /\ UNCHANGED <<pc, defaults, settings, linked_clone, port_name_format,
                   port_segment_size, first_port_name, nodeName, pending, call>>

----------------------------------------------------------------------------
(* Specification of the node's life: constructed, created once, then       *)
(* updated through request and response.                                   *)

Names == {"R1", "R2"}

Next ==
    \/ \E vmname \in {"R1"}, name \in {"", "R2"},
          fmt \in {FormatEthernet, FormatSlot},
          segment_size \in {0, 2},
          first_name \in {None, Str(""), Str("mgmt0")},
          linked \in BOOLEAN :
            create(vmname, name, fmt, segment_size, first_name, linked)
    \/ createCallback
    \/ \E a \in {NoInt, 1}, v \in {NoStr}, n \in {NoStr, "R2"} :
            update(DictOf(a, v, n))
    \/ \E a \in {NoInt} \cup 0..MaxAdapters, v \in {NoStr, "R1"}, n \in {NoStr, "R2"} :
            updateCallback(DictOf(a, v, n))
    \/ \E i \in 1..MaxAdapters : linkPort(i)

Spec == Init /\ [][Next]_vars

----------------------------------------------------------------------------
(* Specification for the port-naming formula: the node has been given its   *)
(* naming parameters by create(); the callbacks then build the port list.   *)

InitNaming ==
    \E a \in 0..MaxNamingAdapters,
       fmt \in {FormatEthernet, FormatSlot, FormatOneBased},
       segment_size \in 0..MaxSegmentSize,
       first_name \in {None, Str(""), Str("mgmt0")} :
        /\ pc = "creating"
        /\ defaults = VBOX_VM_SETTINGS(a)
        /\ settings = virtualbox_vm_settings(defaults)
        /\ linked_clone = FALSE
        /\ port_name_format = fmt
        /\ port_segment_size = segment_size
        /\ first_port_name = first_name
        /\ ports = <<>>
        /\ nodeName = "R1"
        /\ pending = 0
        /\ call = NoCall

NextNaming ==
    \/ createCallback
    \/ \E a \in {0, MaxNamingAdapters} : update(DictOf(a, NoStr, NoStr))
    \/ \E a \in 0..MaxNamingAdapters : updateCallback(DictOf(a, NoStr, NoStr))

SpecNaming == InitNaming /\ [][NextNaming]_vars

----------------------------------------------------------------------------
(* Specification for update(): a created node in any of its stored states   *)
(* is handed a new_settings dict.                                           *)

InitUpdate ==
    \E a \in 0..MaxAdapters, v \in {""} \cup Names, n \in Names, linked \in BOOLEAN :
        /\ pc = "created"
        /\ defaults = VBOX_VM_SETTINGS(a)
        /\ settings = [virtualbox_vm_settings(defaults) EXCEPT !["vmname"] = v]
        /\ linked_clone = linked
        /\ port_name_format = FormatEthernet
        /\ port_segment_size = 0
        /\ first_port_name = Str("")
        /\ ports = addAdapters(<<>>, {}, a)
        /\ nodeName = n
        /\ pending = 0
        /\ call = NoCall

NextUpdate ==
    \E a \in {NoInt} \cup 0..MaxAdapters,
       v \in {NoStr, ""} \cup Names,
       n \in {NoStr} \cup Names :
        update(DictOf(a, v, n))

SpecUpdate == InitUpdate /\ [][NextUpdate]_vars

----------------------------------------------------------------------------
(* Properties *)

\* C1: once the node is created, after any create callback and any update
\* callbacks, the number of ports equals the "adapters" setting.
C1_PortCountEqualsAdapters ==
    pc = "created" => Len(ports) = settings["adapters"]

C1_Witness ==
    /\ pc = "created"
    /\ settings["adapters"] # defaults.adapters
    /\ Len(ports) = MaxAdapters
    /\ settings["adapters"] = MaxAdapters

\* C2: an update callback that changes the stored "adapters" value replaces
\* the whole port list: no port object of the old list is in the new one, and
\* the new list holds one fresh (free) port per adapter of the new count.
C2_AdapterChangeRebuildsAllPorts ==
    [][(pending' < pending /\ settings'["adapters"] # settings["adapters"])
        => /\ PortIds(ports') \cap PortIds(ports) = {}
           /\ Len(ports') = settings'["adapters"]
           /\ Cardinality(PortIds(ports')) = Len(ports')
           /\ \A i \in 1..Len(ports') : ports'[i].free]_vars

C2_Witness ==
    /\ pc = "created"
    /\ settings["adapters"] # defaults.adapters
    /\ Len(ports) > 0
    /\ defaults.adapters > 0
    /\ 1 \notin PortIds(ports)

\* the name _addAdapters is claimed to give adapter k when it is the
\* (j+1)-th port named from the template
TemplateName(j) ==
    Format(port_name_format,
           IF port_segment_size = 0 THEN j ELSE j % port_segment_size,
           IF port_segment_size = 0 THEN 0 ELSE j \div port_segment_size)

\* C3: with no first-port name (None or ""), adapter k is named from the
\* template with index k and segment 0 when the segment size is 0, and with
\* index k mod N and segment k div N when the segment size is N > 0.
C3_NamesWithoutFirstPortName ==
    (pc = "created" /\ ~Truthy(first_port_name))
        => /\ Len(ports) = settings["adapters"]
           /\ \A k \in 0..(Len(ports) - 1) : ports[k + 1].name = TemplateName(k)

C3_Witness ==
    /\ pc = "created"
    /\ first_port_name = None
    /\ port_segment_size = 2
    /\ port_name_format = FormatSlot
    /\ Len(ports) = MaxNamingAdapters
    /\ ports[4].name = <<Lit("e"), Num(1), Lit("/"), Num(1)>>

\* C4: with a non-empty first-port name, adapter 0 carries exactly that name
\* and consumes no index: adapter k >= 1 is named from the template with
\* index (k-1) mod N and segment (k-1) div N (index k-1, segment 0 when the
\* segment size is 0).
C4_NamesWithFirstPortName ==
    (pc = "created" /\ Truthy(first_port_name))
        => /\ Len(ports) = settings["adapters"]
           /\ Len(ports) > 0 => ports[1].name = first_port_name
           /\ \A k \in 1..(Len(ports) - 1) : ports[k + 1].name = TemplateName(k - 1)

C4_Witness ==
    /\ pc = "created"
    /\ first_port_name = Str("mgmt0")
    /\ port_segment_size = 2
    /\ port_name_format = FormatOneBased
    /\ Len(ports) = MaxNamingAdapters
    /\ ports[1].name = Str("mgmt0")
    /\ ports[4].name = <<Lit("eth"), Num(1), Lit("."), Num(1)>>

\* C5: once the node is created, the port at position k of the list has
\* adapter number k and port number 0, so the adapter numbers are exactly
\* 0..adapters-1 without gap or duplicate.
C5_SequentialAdapterNumbers ==
    pc = "created"
        => /\ \A k \in 0..(Len(ports) - 1) :
                /\ ports[k + 1].adapter_number = k
                /\ ports[k + 1].port_number = 0
           /\ {ports[i].adapter_number : i \in 1..Len(ports)}
                = 0..(settings["adapters"] - 1)

C5_Witness ==
    /\ pc = "created"
    /\ Truthy(first_port_name)
    /\ port_segment_size = 2
    /\ Len(ports) = MaxAdapters
    /\ 1 \notin PortIds(ports)

\* C6: update() changes neither the stored settings nor the port list (it
\* only issues a request); the stored settings change only in the step in
\* which an update response is consumed by _updateCallback.
C6_OnlyUpdateCallbackMutatesSettings ==
    [][/\ (call' # call \/ pending' > pending)
            => (settings' = settings /\ ports' = ports)
       /\ settings' # settings => (pc = "created" /\ pending' = pending - 1)]_vars

C6_Witness ==
    /\ pending > 0
    /\ call.sent
    /\ "adapters" \in DOMAIN call.params
    /\ call.params["adapters"] # settings["adapters"]
    /\ Len(ports) = settings["adapters"]

\* C7 (as claimed): right after construction the settings record contains
\* every key of the VM settings set, the linked-clone flag included, with
\* vmname empty, console port and host unset and every other key equal to
\* its value in the defaults table.
C7_SettingsAfterConstructionAsClaimed ==
    pc = "new"
        => /\ {"vmname", "console", "console_host", "adapters", "adapter_type",
               "ram", "headless", "acpi_shutdown", "enable_remote_console",
               "linked_clone"} \subseteq DOMAIN settings
           /\ settings["vmname"] = ""
           /\ settings["console"] = None
           /\ settings["console_host"] = None
           /\ \A k \in {"adapters", "adapter_type", "ram", "headless",
                        "acpi_shutdown", "enable_remote_console"} :
                settings[k] = defaults[k]

\* C7 (amended): right after construction the settings record contains the
\* keys vmname, console, console_host, adapters, use_any_adapter,
\* adapter_type, ram, headless, acpi_shutdown and enable_remote_console, with
\* vmname empty, console port and host unset and every other key equal to
\* its value in the defaults table; the linked-clone flag is not a settings
\* key but an attribute of the node, False after construction.
C7_SettingsAfterConstruction ==
    pc = "new"
        => /\ {"vmname", "console", "console_host", "adapters", "use_any_adapter",
               "adapter_type", "ram", "headless", "acpi_shutdown",
               "enable_remote_console"} \subseteq DOMAIN settings
           /\ settings["vmname"] = ""
           /\ settings["console"] = None
           /\ settings["console_host"] = None
           /\ \A k \in {"adapters", "use_any_adapter", "adapter_type", "ram",
                        "headless", "acpi_shutdown", "enable_remote_console"} :
                settings[k] = defaults[k]
           /\ "linked_clone" \notin DOMAIN settings
           /\ linked_clone = FALSE

C7_Witness ==
    /\ pc = "new"
    /\ defaults.adapters = MaxAdapters
    /\ ports = <<>>

\* C8: an update callback that leaves the stored adapter count as it was
\* (no "adapters" key in the result, or an equal value) leaves the port list
\* as it was, the same port objects in the same state; and no callback adds a
\* key to the settings (result keys that are not settings keys are ignored).
C8_NoAdapterChangeKeepsPorts ==
    [][/\ (pending' < pending /\ settings'["adapters"] = settings["adapters"])
            => ports' = ports
       /\ DOMAIN settings' = DOMAIN settings]_vars

C8_Witness ==
    /\ pc = "created"
    /\ settings["vmname"] # ""
    /\ settings["adapters"] = defaults.adapters
    /\ Len(ports) = MaxAdapters
    /\ PortIds(ports) = 1..MaxAdapters
    /\ \E i \in 1..Len(ports) : ~ports[i].free

\* the value update() is claimed to consider for key k of new_settings:
\* on a linked clone being renamed vmname is the new name
ClaimedRename(ns) ==
    "name" \in DOMAIN ns /\ ns["name"] # nodeName /\ linked_clone

ClaimedValue(ns, k) ==
    IF ClaimedRename(ns) /\ k = "vmname" THEN ns["name"] ELSE ns[k]

ClaimedKeys(ns) ==
    {k \in DOMAIN ns \cup (IF ClaimedRename(ns) THEN {"vmname"} ELSE {}) :
        k \in DOMAIN settings /\ settings[k] # ClaimedValue(ns, k)}

\* C9: update(new_settings) sends exactly the entries of new_settings (as it
\* stands after the linked-clone rename of C10) whose key is a settings key
\* and whose value differs from the stored one; when there is none, no
\* request is issued.
C9_UpdateSendsChangedSettingsOnly ==
    call.called
        => /\ DOMAIN call.params = ClaimedKeys(call.new_settings)
           /\ \A k \in DOMAIN call.params :
                call.params[k] = ClaimedValue(call.new_settings, k)
           /\ call.sent <=> ClaimedKeys(call.new_settings) # {}
           /\ call.sent => pending > 0

C9_Witness ==
    /\ call.called
    /\ call.sent
    /\ DOMAIN call.new_settings = {"adapters", "vmname", "name"}
    /\ DOMAIN call.params = {"adapters"}
    /\ pending = 1

\* C10: on a linked clone, an update whose "name" differs from the node's
\* name carries vmname equal to the new name (whatever vmname the caller
\* gave) whenever that differs from the stored vmname; on a node that is not
\* a linked clone, or when the name is unchanged, the request carries vmname
\* only as the caller gave it.
C10_LinkedCloneRenameForcesVmname ==
    call.called
        => LET ns == call.new_settings
               p == call.params
               renamed == "name" \in DOMAIN ns /\ ns["name"] # nodeName
           IN IF linked_clone /\ renamed
              THEN /\ ns["name"] # settings["vmname"]
                        => (call.sent /\ "vmname" \in DOMAIN p
                            /\ p["vmname"] = ns["name"])
                   /\ ns["name"] = settings["vmname"] => "vmname" \notin DOMAIN p
              ELSE /\ "vmname" \in DOMAIN p
                        <=> ("vmname" \in DOMAIN ns
                             /\ ns["vmname"] # settings["vmname"])
                   /\ "vmname" \in DOMAIN p => p["vmname"] = ns["vmname"]

C10_Witness ==
    /\ call.called
    /\ linked_clone
    /\ "vmname" \in DOMAIN call.new_settings
    /\ "name" \in DOMAIN call.new_settings
    /\ call.new_settings["vmname"] # call.new_settings["name"]
    /\ call.new_settings["vmname"] # settings["vmname"]
    /\ "vmname" \in DOMAIN call.params
    /\ call.params["vmname"] = call.new_settings["name"]

====
